---- MODULE Spec2Model ----
(***************************************************************************)
(* CodeWeaver SRE agent: the plan lifecycle kept by the FastAPI handlers   *)
(* of Core/src/main.py (the module-level CURRENT_PLAN slot), the plan      *)
(* synthesis of Core/src/planner.py (chaos short-circuit, Oracle call,     *)
(* safety gate, fallback) and the dispatch of Core/src/executor.py.        *)
(*                                                                         *)
(* Python values that come from untrusted JSON are tagged with their type  *)
(* (Str, PyNone, PyInt), dictionaries are records (the empty dictionary is *)
(* the empty function), and text that the code inspects is a sequence of   *)
(* one-character strings, so that lower(), strip() and the `in` substring  *)
(* test are computed and not assumed.                                      *)
(***************************************************************************)
EXTENDS Integers, Sequences, FiniteSets, TLC

\* ------------------------------------------------------------------ bounds

\* Webhook alerts whose plan is stored during one run.
MaxAlerts == 3

\* Approve handlers that may be past their check and not yet finished. The
\* event loop admits one (see LoopFree); the bound only caps variants of the
\* model in which the executor would suspend.
MaxInFlight == 2

\* Values the random part of a plan id is drawn from.
NumIds == 2

\* Failing /buy requests the chaos service answers between two calls of its
\* trigger and resolve endpoints.
MaxBuys == 2

\* Calls of the trigger and resolve endpoints of the chaos service.
MaxIncidents == 3

\* How far below line 1 and past the last line a reported line number lies,
\* and how many lines a large file has beyond the threshold.
MaxLineOffset == 30

\* Calls of execute_plan on the file tree during one run.
MaxExecs == 2

\* Seconds the clock advances during one run.
MaxClock == 1

\* ----------------------------------------------------------- Python values

Str(v) == [type |-> "str", val |-> v]
PyNone == [type |-> "NoneType"]
PyInt(n) == [type |-> "int", val |-> n]

\* The empty dictionary {}.
EmptyDict == [k \in {} |-> k]

\* dict.get(key, default)
Get(d, key, default) == IF key \in DOMAIN d THEN d[key] ELSE default

\* dict.update(new): keys of `new` win.
Update(d, new) == new @@ d

\* bool(v) of a tagged value.
Truthy(v) ==
    CASE v.type = "str" -> v.val # << >>
      [] v.type = "NoneType" -> FALSE
      [] v.type = "int" -> v.val # 0
      [] OTHER -> TRUE

\* bool(d) of a dictionary: `not CURRENT_PLAN` is ~DictTruthy(CURRENT_PLAN).
DictTruthy(d) == DOMAIN d # {}

\* ------------------------------------------------------------------- text

Upper == <<"C", "H", "A", "O", "S", "M", "D", "E">>
Lower == <<"c", "h", "a", "o", "s", "m", "d", "e">>

\* str.lower() of one character.
LowerChar(c) ==
    IF \E i \in 1..Len(Upper) : Upper[i] = c
    THEN Lower[CHOOSE i \in 1..Len(Upper) : Upper[i] = c]
    ELSE c

\* str.lower()
lower(s) == [i \in 1..Len(s) |-> LowerChar(s[i])]

\* `sub in s` on str.
IsSubstr(sub, s) ==
    \E i \in 0..(Len(s) - Len(sub)) : SubSeq(s, i + 1, i + Len(sub)) = sub

IsSpace(c) == c \in {" ", "\n", "\t"}

\* str.strip() == '' : every character is whitespace.
StripIsEmpty(s) == \A i \in 1..Len(s) : IsSpace(s[i])

CHAOS == <<"C", "H", "A", "O", "S">>
CHAOS_MODE == <<"C", "H", "A", "O", "S", " ", "M", "O", "D", "E">>
chaos == <<"c", "h", "a", "o", "s">>

\* ------------------------------------------------------------ safety gate

\* Generated code as ast.parse sees it: `parse` is what ast.parse does with
\* the value ("ok", "SyntaxError", or "Exception" for any other exception:
\* TypeError on a value that is no str, RecursionError or MemoryError on deep
\* nesting, UnicodeEncodeError on a lone surrogate), `stmts` the import nodes
\* of the tree in ast.walk order.
Code(parse, stmts) == [parse |-> parse, stmts |-> stmts]

Import(names) == [node |-> "Import", names |-> names]
ImportFrom(module) == [node |-> "ImportFrom", names |-> <<module>>]

\* '' parses to an empty module.
EmptyCode == Code("ok", << >>)

\* planner.py:66: the names of an Import, the module of an ImportFrom.
full_imports(node) == node.names

\* planner.py:68-71: the warning one imported module adds, if any.
ModuleWarnings(module) ==
    IF module \in {"subprocess", "os"}
    THEN << [text |-> "Uses module (process execution)", module |-> module] >>
    ELSE IF module \in {"shutil"}
    THEN << [text |-> "Uses module (file operations)", module |-> module] >>
    ELSE << >>

RECURSIVE NamesWarnings(_)
NamesWarnings(names) ==
    IF names = << >> THEN << >>
    ELSE ModuleWarnings(Head(names)) \o NamesWarnings(Tail(names))

RECURSIVE WalkWarnings(_)
WalkWarnings(stmts) ==
    IF stmts = << >> THEN << >>
    ELSE NamesWarnings(full_imports(Head(stmts))) \o WalkWarnings(Tail(stmts))

CatastrophicFinding == [text |-> "CATASTROPHIC: Invalid Python syntax", module |-> ""]

\* except SyntaxError (planner.py:73): the only parse failure the gate turns
\* into a verdict.
GateCatches(parse) == parse = "SyntaxError"

\* SafePlanner.analyze_safety: (is_catastrophic, warnings), or the exception
\* that leaves it.
analyze_safety(code) ==
    IF code.parse = "ok"
    THEN [raised |-> FALSE, catastrophic |-> FALSE, warnings |-> WalkWarnings(code.stmts)]
    ELSE IF GateCatches(code.parse)
    THEN [raised |-> FALSE, catastrophic |-> TRUE, warnings |-> <<CatastrophicFinding>>]
    ELSE [raised |-> TRUE, catastrophic |-> FALSE, warnings |-> << >>]

\* ---------------------------------------------------------------- planner

\* f"Generated patch is unsafe: {safety_warnings}"
UnsafeReason(warnings) ==
    [type |-> "str", val |-> "Generated patch is unsafe: ", args |-> warnings]

\* planner.py:86: root_cause.lower() if root_cause else ''. A truthy value
\* that is no str has no lower(): AttributeError.
RootCauseLowerRaises(root_cause) == Truthy(root_cause) /\ root_cause.type # "str"

root_cause_text(root_cause) ==
    IF Truthy(root_cause) THEN lower(root_cause.val) ELSE << >>

\* planner.py:88: `'CHAOS MODE' in raw_logs` on a value that is no str (and
\* no container): TypeError.
RawLogsInRaises(raw_logs) == raw_logs.type # "str"

\* planner.py:88
IsChaosScenario(raw_logs, rc_text) ==
    \/ IsSubstr(CHAOS_MODE, raw_logs.val)
    \/ IsSubstr(chaos, rc_text)
    \/ IsSubstr(CHAOS, raw_logs.val)

\* planner.py:90-97
ResolveChaosPlan ==
    [action |-> "resolve_chaos",
     target |-> Str("chaos-app"),
     reason |-> Str("Detected simulated chaos test. Calling /chaos/resolve endpoint to restore system."),
     endpoint |-> "http://chaos-app:8000/chaos/resolve",
     safety_warnings |-> << >>,
     status |-> "waiting_for_approval"]

\* planner.py:143-147
EscalateUnsafePlan(warnings) ==
    [action |-> "escalate",
     reason |-> UnsafeReason(warnings),
     status |-> "waiting_for_approval"]

\* planner.py:155-164
CodePatchPlan(plan_data, fixed_code, warnings) ==
    [action |-> "apply_code_patch",
     target |-> Get(plan_data, "file_path", Str("unknown")),
     reason |-> Get(plan_data, "reason", Str("Automated Code Fix")),
     file_path |-> Get(plan_data, "file_path", PyNone),
     original_code |-> Get(plan_data, "original_code", PyNone),
     fixed_code |-> fixed_code,
     safety_warnings |-> warnings,
     status |-> "waiting_for_approval"]

\* planner.py:113-168, the try block: `oracle` is what the LLM call and the
\* JSON parser do ("raise": llm.invoke raises; "malformed": parser.parse
\* raises; "nondict": the JSON is no object, so .get raises; "dict": the
\* parsed object). Every exception ends in `return None`.
GatedFix(oracle) ==
    IF oracle.kind # "dict" THEN PyNone
    ELSE LET plan_data == oracle.data
             fixed_code == Get(plan_data, "fixed_code", EmptyCode)
             verdict == analyze_safety(fixed_code)
         IN  IF verdict.raised THEN PyNone
             ELSE IF verdict.catastrophic THEN EscalateUnsafePlan(verdict.warnings)
             ELSE CodePatchPlan(plan_data, fixed_code, verdict.warnings)

\* SafePlanner.generate_fix: `raised` when an exception leaves it, `ret` its
\* return value, `called` whether llm.invoke was reached.
generate_fix(diagnosis, oracle) ==
    LET root_cause == Get(diagnosis, "root_cause", PyNone)
        raw_logs == Get(diagnosis, "raw_logs", Str(<< >>))
    IN  IF RootCauseLowerRaises(root_cause) \/ RawLogsInRaises(raw_logs)
        THEN [raised |-> TRUE, ret |-> PyNone, called |-> FALSE]
        ELSE IF IsChaosScenario(raw_logs, root_cause_text(root_cause))
        THEN [raised |-> FALSE, ret |-> ResolveChaosPlan, called |-> FALSE]
        ELSE [raised |-> FALSE, ret |-> GatedFix(oracle), called |-> TRUE]

\* f"plan_{uuid.uuid4().hex[:8]}": 32 random bits, here one of NumIds values.
PlanId(n) == <<"plan_", n>>
PlanIds == {PlanId(n) : n \in 1..NumIds}

\* planner.py:180-185
FallbackPlan(id) ==
    [action |-> "escalate",
     reason |-> Str("Failed to generate plan"),
     status |-> "waiting_for_approval",
     id |-> id]

UnknownIssue ==
    <<"U", "n", "k", "n", "o", "w", "n", " ", "I", "s", "s", "u", "e">>

\* planner.py:188-195
Enrichment(diagnosis, id) ==
    [root_cause |-> Get(diagnosis, "root_cause", Str(UnknownIssue)),
     file_name |-> Get(diagnosis, "file_name", Str("Unknown")),
     involved_files |-> Get(diagnosis, "involved_files", << >>),
     line_number |-> Get(diagnosis, "line_number", Str("Unknown")),
     code_snippet |-> Get(diagnosis, "code_snippet", Str("No stack trace available")),
     id |-> id]

\* The fallback of generate_plan never taken.
NoPlanDetailsNever(ret) == FALSE

\* `not plan_details` (planner.py:178): None, or an empty dictionary.
NoPlanDetails(ret) == ret = PyNone \/ DOMAIN ret = {}

\* generate_plan
generate_plan(diagnosis, oracle, id) ==
    LET fix == generate_fix(diagnosis, oracle)
    IN  IF fix.raised THEN [raised |-> TRUE, ret |-> PyNone, called |-> fix.called]
        ELSE IF NoPlanDetails(fix.ret)
        THEN [raised |-> FALSE, ret |-> FallbackPlan(id), called |-> fix.called]
        ELSE [raised |-> FALSE, ret |-> Update(fix.ret, Enrichment(diagnosis, id)),
              called |-> fix.called]

\* -------------------------------------------------------------- diagnoser

NoLogContentProvided ==
    <<"N", "o", " ", "l", "o", "g", " ", "c", "o", "n", "t", "e", "n", "t",
      " ", "p", "r", "o", "v", "i", "d", "e", "d">>

LLMAnalysisFailed ==
    <<"L", "L", "M", " ", "a", "n", "a", "l", "y", "s", "i", "s", " ",
      "f", "a", "i", "l", "e", "d", ":", " ">>

Float(hundredths) == [type |-> "float", val |-> hundredths]

\* diagnoser.py:117: `not log_content or not log_content.strip()`. A truthy
\* value that is no str has no strip(): AttributeError, outside the try.
StripRaises(log_content) == Truthy(log_content) /\ log_content.type # "str"

\* The test for empty input left out.
NoLogContentUnchecked(log_content) == FALSE

NoLogContent(log_content) ==
    ~Truthy(log_content) \/ StripIsEmpty(log_content.val)

\* diagnoser.py:119-122
EmptyLogDiagnosis ==
    [root_cause |-> Str(NoLogContentProvided), confidence |-> Float(0)]

\* diagnoser.py:159-162, with str(e) the exception's message.
FailedDiagnosis(message) ==
    [root_cause |-> Str(LLMAnalysisFailed \o message), confidence |-> Float(0)]

\* f"{confidence:.2f}" (diagnoser.py:152) raises on a value that is no number.
FormatRaises(confidence) == confidence.type \notin {"float", "int"}

FormatError == <<"f", "o", "r", "m", "a", "t">>
NoGet == <<"n", "o", " ", "g", "e", "t">>

\* diagnoser.py:140-146: source_context is what get_source_code_context
\* read from the project tree ('' when it found nothing).
Enriched(result, source_context) ==
    IF /\ Get(result, "file_name", Str("Unknown")) # Str("Unknown")
       /\ Get(result, "line_number", Str("Unknown")) # Str("Unknown")
       /\ Truthy(source_context)
    THEN Update(result, [source_code_context |-> source_context])
    ELSE result

\* Diagnoser.analyze_logs: `oracle` is what the LLM call and the JSON parser
\* do, as in GatedFix, with the exception's message.
analyze_logs(log_content, oracle, source_context) ==
    IF StripRaises(log_content) THEN [raised |-> TRUE, ret |-> EmptyDict, called |-> FALSE]
    ELSE IF NoLogContent(log_content)
    THEN [raised |-> FALSE, ret |-> EmptyLogDiagnosis, called |-> FALSE]
    ELSE [raised |-> FALSE, called |-> TRUE,
          ret |-> IF oracle.kind \in {"raise", "malformed"}
                  THEN FailedDiagnosis(oracle.message)
                  ELSE IF oracle.kind = "nondict" THEN FailedDiagnosis(NoGet)
                  ELSE IF FormatRaises(Get(oracle.data, "confidence", Float(0)))
                  THEN FailedDiagnosis(FormatError)
                  ELSE Enriched(oracle.data, source_context)]

\* --------------------------------------------------------------- executor

\* What the project tree and the network do to one execution: `fs` for
\* apply_code_patch ("missing": no file at the path; "mismatch":
\* original_code is not in the file; "patched": backup, replace, write;
\* "exception": any step raises), `net` for the POST of resolve_chaos.
ExecEnvs == [fs : {"missing", "mismatch", "patched", "exception"}, net : {"ok", "fail"}]

\* executor.py:26, 45: os.path.join(workspace, None) and `None in content`
\* raise TypeError, which the handler at executor.py:69 catches.
PatchFs(plan, fs) ==
    IF Get(plan, "file_path", PyNone).type # "str" THEN "exception"
    ELSE IF fs \in {"mismatch", "patched"} /\ Get(plan, "original_code", PyNone).type # "str"
    THEN "exception"
    ELSE fs

\* executor.py:16-75
apply_code_patch(plan, fs) ==
    CASE PatchFs(plan, fs) = "missing" ->
           [status |-> "error", details |-> Str("Target file not found")]
      [] PatchFs(plan, fs) = "mismatch" ->
           [status |-> "error",
            details |-> Str("Original code section not found in file. Patch cannot be applied.")]
      [] PatchFs(plan, fs) = "patched" ->
           [status |-> "success", details |-> Str("Code patch applied"),
            backup_path |-> Str("backup")]
      [] OTHER ->
           [status |-> "error", details |-> Str("Patch failed")]

\* executor.py:78-97
resolve_chaos(plan, net) ==
    IF net = "ok"
    THEN [status |-> "success", details |-> Str("Chaos scenario resolved")]
    ELSE [status |-> "error", details |-> Str("Chaos resolution failed")]

\* executor.py:99-104
escalate(plan) ==
    [status |-> "escalated",
     details |-> Get(plan, "reason", Str("No automated remediation possible"))]

\* executor.py:106-109
NoExecutionPath ==
    [status |-> "skipped", details |-> Str("No execution path for this action")]

\* execute_plan: the result it returns. It never raises: each branch that
\* can fail catches Exception.
execute_plan(plan, env) ==
    LET action == Get(plan, "action", "None")
    IN  CASE action = "apply_code_patch" -> apply_code_patch(plan, env.fs)
          [] action = "resolve_chaos" -> resolve_chaos(plan, env.net)
          [] action = "escalate" -> escalate(plan)
          [] OTHER -> NoExecutionPath

\* ------------------------------------------------------- the project tree

\* os.getenv("PROJECT_PATH", "/workspace") (executor.py:25, diagnoser.py:36):
\* the project root, here the directory /w.
workspace == <<"/", "w">>

\* os.path.join(a, b) on POSIX: an absolute b replaces a.
join(a, b) ==
    IF b # << >> /\ b[1] = "/" THEN b
    ELSE IF a = << >> \/ a[Len(a)] = "/" THEN a \o b
    ELSE a \o <<"/">> \o b

\* A path text cut at its slashes.
RECURSIVE Segments(_)
Segments(path) ==
    IF path = << >> THEN << << >> >>
    ELSE LET rest == Segments(Tail(path))
         IN  IF Head(path) = "/" THEN << << >> >> \o rest
             ELSE << <<Head(path)>> \o Head(rest) >> \o Tail(rest)

RECURSIVE Walk(_, _)
Walk(segs, stack) ==
    IF segs = << >> THEN stack
    ELSE LET seg == Head(segs)
         IN  Walk(Tail(segs),
                  IF seg \in {<< >>, <<".">>} THEN stack
                  ELSE IF seg = <<".", ".">>
                       THEN SubSeq(stack, 1, Len(stack) - 1)
                       ELSE Append(stack, seg))

\* The file an absolute path text names when the system opens it
\* (os.path.exists, shutil.copy2, open): empty and "." segments dropped,
\* ".." steps to the parent, and the parent of / is /.
Resolve(path) == Walk(Segments(path), << >>)

\* The resolved path lies under the project root.
InsideRoot(p) ==
    LET root == Resolve(workspace)
    IN  Len(p) > Len(root) /\ SubSeq(p, 1, Len(root)) = root

\* A directory of the tree: the root of the file system and every proper
\* prefix of a file's path.
IsDir(fs, p) ==
    \E f \in DOMAIN fs : Len(f) > Len(p) /\ SubSeq(f, 1, Len(p)) = p

\* os.path.exists (executor.py:28, diagnoser.py:79)
exists(fs, path) == Resolve(path) \in DOMAIN fs \/ IsDir(fs, Resolve(path))

\* datetime.now().strftime('%Y%m%d_%H%M%S') (executor.py:36): one text per
\* second of the clock, the same text throughout a second.
RECURSIVE strftime(_)
strftime(n) == IF n = 0 THEN <<"0">> ELSE strftime(n - 1) \o <<"'">>

\* executor.py:36
backup_path(full_path, n) ==
    full_path \o <<".", "b", "a", "c", "k", "u", "p", ".">> \o strftime(n)

\* str.find: the first index (from 1) where `sub` occurs in s, 0 when none.
find(s, sub) ==
    LET at == {i \in 1..(Len(s) - Len(sub) + 1) : SubSeq(s, i, i + Len(sub) - 1) = sub}
    IN  IF at = {} THEN 0 ELSE CHOOSE i \in at : \A j \in at : i <= j

\* str.replace(old, new) without the count: every occurrence replaced.
RECURSIVE replace_all(_, _, _)
replace_all(s, old, new) ==
    IF old = << >> \/ find(s, old) = 0 THEN s
    ELSE SubSeq(s, 1, find(s, old) - 1) \o new
         \o replace_all(SubSeq(s, find(s, old) + Len(old), Len(s)), old, new)

\* str.replace(old, new, 1) (executor.py:54)
replace(s, old, new) ==
    IF find(s, old) = 0 THEN s
    ELSE SubSeq(s, 1, find(s, old) - 1) \o new
         \o SubSeq(s, find(s, old) + Len(old), Len(s))

IsDigit(c) == c \in {"0", "1", "2", "3", "4", "5", "6", "7", "8", "9"}

\* int(text) returns (diagnoser.py:72): blanks around an optionally signed
\* run of digits.
IsIntText(text) ==
    \E i \in 1..Len(text), j \in 1..Len(text) :
        /\ i <= j
        /\ \A k \in 1..Len(text) : (k < i \/ k > j) => IsSpace(text[k])
        /\ \/ \A k \in i..j : IsDigit(text[k])
           \/ /\ text[i] \in {"+", "-"} /\ i < j
              /\ \A k \in (i + 1)..j : IsDigit(text[k])

DigitValue(c) ==
    CHOOSE d \in 0..9 : <<"0", "1", "2", "3", "4", "5", "6", "7", "8", "9">>[d + 1] = c

RECURSIVE DigitsValue(_)
DigitsValue(digits) ==
    IF digits = << >> THEN 0
    ELSE 10 * DigitsValue(SubSeq(digits, 1, Len(digits) - 1))
         + DigitValue(digits[Len(digits)])

\* str.strip()
RECURSIVE strip(_)
strip(text) ==
    IF text = << >> THEN text
    ELSE IF IsSpace(Head(text)) THEN strip(Tail(text))
    ELSE IF IsSpace(text[Len(text)]) THEN strip(SubSeq(text, 1, Len(text) - 1))
    ELSE text

\* int(text) (diagnoser.py:72) for a text it accepts.
int(text) ==
    LET t == strip(text)
    IN  IF Head(t) = "-" THEN 0 - DigitsValue(Tail(t))
        ELSE IF Head(t) = "+" THEN DigitsValue(Tail(t))
        ELSE DigitsValue(t)

\* f.readlines() (diagnoser.py:84): the text cut after every \n.
RECURSIVE readlines(_)
readlines(text) ==
    IF text = << >> THEN << >>
    ELSE LET rest == readlines(Tail(text))
         IN  IF Head(text) = "\n" \/ rest = << >> THEN << <<Head(text)>> >> \o rest
             ELSE << <<Head(text)>> \o Head(rest) >> \o Tail(rest)

\* ''.join(lines)
RECURSIVE joined(_)
joined(lines) == IF lines = << >> THEN << >> ELSE Head(lines) \o joined(Tail(lines))

\* lines[start:end] as Python slices a list: a negative index counts from
\* the end, and both ends are cut to the list.
Slice(lines, start, end) ==
    LET n == Len(lines)
        Clamp(i) == IF i < 0 THEN (IF n + i < 0 THEN 0 ELSE n + i)
                    ELSE IF i > n THEN n ELSE i
    IN  SubSeq(lines, Clamp(start) + 1, Clamp(end))

Max(a, b) == IF a >= b THEN a ELSE b
Min(a, b) == IF a <= b THEN a ELSE b

\* diagnoser.py:89: files of up to this many lines are attached whole.
SmallFileLines == 500

\* diagnoser.py:95-96: the offsets of the window around the reported line.
LinesBefore == 21
LinesAfter == 20

\* min(total_lines, line_num + 20) (diagnoser.py:96)
EndLine(total_lines, line_num) == Min(total_lines, line_num + LinesAfter)

\* diagnoser.py:86-97: the lines get_source_code_context attaches.
source_context(lines, line_num) ==
    LET total_lines == Len(lines)
    IN  IF total_lines <= SmallFileLines THEN lines
        ELSE LET start_line == Max(0, line_num - LinesBefore)
                 end_line == EndLine(total_lines, line_num)
             IN  Slice(lines, start_line, end_line)

Unknown == <<"U", "n", "k", "n", "o", "w", "n">>

\* open(path, 'r', encoding='utf-8').read() (executor.py:41-42,
\* diagnoser.py:83-84): text mode with universal newlines, so \r\n and a
\* lone \r of the file arrive as \n.
RECURSIVE read_text(_)
read_text(bytes) ==
    IF bytes = << >> THEN << >>
    ELSE IF Head(bytes) = "\r"
    THEN <<"\n">> \o read_text(IF Len(bytes) > 1 /\ bytes[2] = "\n"
                               THEN SubSeq(bytes, 3, Len(bytes))
                               ELSE Tail(bytes))
    ELSE <<Head(bytes)>> \o read_text(Tail(bytes))

\* os.linesep in the agent's container.
linesep == <<"\n">>

\* open(path, 'w', encoding='utf-8').write(text) (executor.py:57-58): text
\* mode, every \n written as os.linesep.
RECURSIVE write_text(_)
write_text(text) ==
    IF text = << >> THEN << >>
    ELSE (IF Head(text) = "\n" THEN linesep ELSE <<Head(text)>>) \o write_text(Tail(text))

\* Writing one file.
WriteFile(fs, p, content) == (p :> content) @@ fs

\* The executor as a coroutine that gives control to the loop while it works.
ExecutorSuspendsAtAwait == TRUE

\* execute_plan is declared async and holds no await (it does its file and
\* network work with blocking calls), so `await execute_plan(...)` in
\* approve_plan runs it to its return without giving control to the loop.
ExecutorSuspends == FALSE

\* ----------------------------------------------------------------- inputs

DefaultLogPath ==
    <<"/", "l", "o", "g", "s", "/", "s", "e", "r", "v", "i", "c", "e", ".",
      "l", "o", "g">>

\* Log text with the line the chaos app writes when chaos is triggered
\* (Chaos-app/main.py:135).
ChaosLog == CHAOS_MODE \o <<" ", "A", "C", "T", "I", "V", "A", "T", "E", "D">>

\* payload.data.get('log_path', '/logs/service.log'), which receive_alert
\* hands to analyze_logs as the log content: the default, an empty or blank
\* string, a number, text with the chaos marker.
LogPaths ==
    {Str(DefaultLogPath), Str(<< >>), Str(<<" ", "\n">>), PyInt(42), Str(ChaosLog)}

\* Root causes the Oracle may name.
DbDown == <<"D", "B", " ", "d", "o", "w", "n">>
ChaosTest == <<"C", "h", "a", "o", "s", " ", "t", "e", "s", "t">>

BaseDiagnosis ==
    [root_cause |-> Str(DbDown), confidence |-> Float(90),
     file_name |-> Str("main.py"), line_number |-> Str("42"),
     involved_files |-> <<"main.py">>, code_snippet |-> Str("db.connect()")]

\* What the Oracle and the parser do in analyze_logs.
DiagOracles ==
    { [kind |-> "raise", message |-> <<"t", "i", "m", "e", "o", "u", "t">>],
      [kind |-> "malformed", message |-> <<"b", "a", "d", " ", "j", "s", "o", "n">>],
      [kind |-> "nondict"],
      [kind |-> "dict", data |-> BaseDiagnosis],
      [kind |-> "dict", data |-> [BaseDiagnosis EXCEPT !.root_cause = Str(ChaosTest)]],
      [kind |-> "dict", data |-> [BaseDiagnosis EXCEPT !.root_cause = PyInt(42)]],
      [kind |-> "dict", data |-> [BaseDiagnosis EXCEPT !.confidence = Str("high")]],
      [kind |-> "dict", data |-> Update(BaseDiagnosis, [raw_logs |-> Str(CHAOS_MODE)])],
      [kind |-> "dict", data |-> Update(BaseDiagnosis, [raw_logs |-> PyNone])],
      [kind |-> "dict", data |-> [confidence |-> Float(150)]] }

\* What get_source_code_context returns.
SourceContexts == {Str(<< >>), Str(<<"d", "b">>)}

CleanCode == Code("ok", << >>)
OsCode == Code("ok", <<Import(<<"json", "os">>), ImportFrom("shutil")>>)
\* import os.path; from os.path import join
SubmoduleCode == Code("ok", <<Import(<<"os.path">>), ImportFrom("os.path")>>)
BrokenCode == Code("SyntaxError", << >>)
UnparsableCode == Code("Exception", << >>)

BasePatch ==
    [action |-> Str("fix_database_connection"), reason |-> Str("retry"),
     target |-> Str("main.py"), file_path |-> Str("main.py"),
     original_code |-> Str("old"), fixed_code |-> CleanCode]

\* What the Oracle and the parser do in generate_fix.
FixOracles ==
    { [kind |-> "raise"],
      [kind |-> "malformed"],
      [kind |-> "nondict"],
      [kind |-> "dict", data |-> BasePatch],
      [kind |-> "dict", data |-> [BasePatch EXCEPT !.fixed_code = OsCode]],
      [kind |-> "dict", data |-> [BasePatch EXCEPT !.fixed_code = SubmoduleCode]],
      [kind |-> "dict", data |-> [BasePatch EXCEPT !.fixed_code = BrokenCode]],
      [kind |-> "dict", data |-> [BasePatch EXCEPT !.fixed_code = UnparsableCode]],
      [kind |-> "dict", data |-> EmptyDict] }

\* ------------------------------------------------------------------ state

VARIABLES
    CURRENT_PLAN,   \* main.py:53, the pending slot ({} when empty)
    slotSub,        \* the submission (1, 2, ...) whose plan is in the slot; 0: none
    nsub,           \* plans stored so far
    running,        \* approve_plan calls inside execute_plan: <<[plan, sub]>>
    execCount,      \* per submission, calls of execute_plan on its plan
    approvals,      \* per submission, approve_plan responses "approved"
    rejections,     \* per submission, reject_plan responses "rejected"
    synth,          \* one run of the diagnoser and planner, stage by stage
    response,       \* the last response a handler returned
    files,          \* the file system: resolved path |-> content
    now,            \* the wall clock, in whole seconds
    execution,      \* the running or last call that works on the files
    nexec,          \* calls of execute_plan on the files so far
    BROKEN_MODE,    \* Chaos-app/main.py:28
    ALERT_SENT,     \* Chaos-app/main.py:29
    incident,       \* calls of /chaos/trigger and /chaos/resolve so far
    buys,           \* failing /buy requests since the last of those calls
    alerts,         \* the alert posts made: <<[incident, broken, delivered]>>
    chaos_reply     \* the last answer of the chaos service

appvars == <<CURRENT_PLAN, slotSub, nsub, running, execCount, approvals, rejections,
             synth, response>>

fsvars == <<files, now, execution, nexec>>

chaosvars == <<BROKEN_MODE, ALERT_SENT, incident, buys, alerts, chaos_reply>>

vars == <<appvars, fsvars, chaosvars>>

\* No call works on the files.
NoExecution ==
    [call |-> "none", pc |-> "done", args |-> EmptyDict, io |-> "ok",
     full_path |-> << >>, backup_path |-> << >>, current_content |-> << >>,
     before |-> EmptyDict, touched |-> << >>, result |-> EmptyDict]

\* The tree at the start: two sources under the project root /w, one of them
\* with a Windows line ending, and one file outside the root.
ProjectTree ==
    (Resolve(<<"/", "w", "/", "m">>) :> <<"A", " ", "B", " ", "C">>)
    @@ (Resolve(<<"/", "w", "/", "n">>) :> <<"B", "\r", "\n", "B">>)
    @@ (Resolve(<<"/", "s">>) :> <<"B">>)

FsInit ==
    /\ files = ProjectTree
    /\ now = 0
    /\ nexec = 0
    /\ execution = NoExecution

\* Chaos-app/main.py:28-29: the service starts healthy and armed.
ChaosInit ==
    /\ BROKEN_MODE = FALSE
    /\ ALERT_SENT = FALSE
    /\ incident = 0
    /\ buys = 0
    /\ alerts = << >>
    /\ chaos_reply = "none"

Subs == 0..MaxAlerts

NoSynth == [stage |-> "none"]

Response(op, status, plan, execution_result) ==
    [op |-> op, status |-> status, plan |-> plan, execution |-> execution_result]

Init ==
    /\ CURRENT_PLAN = EmptyDict
    /\ slotSub = 0
    /\ nsub = 0
    /\ running = << >>
    /\ execCount = [s \in Subs |-> 0]
    /\ approvals = [s \in Subs |-> 0]
    /\ rejections = [s \in Subs |-> 0]
    /\ synth = NoSynth
    /\ response = Response("none", "none", PyNone, PyNone)
    /\ FsInit
    /\ ChaosInit

\* The emptiness check left out.
NoPendingPlanUnchecked(plan) == FALSE

\* `not CURRENT_PLAN` (main.py:141, 163, 201)
NoPendingPlan(plan) == ~DictTruthy(plan)

\* The handlers are coroutines of one event loop: the loop starts a handler
\* only when no other is running, unless that one is suspended in an await.
LoopFree == running = << >> \/ ExecutorSuspends

\* main.py:108-109
StorePlan(plan) == [plan EXCEPT !.status = "pending"]

\* main.py:86-109, the try block of receive_alert up to the store: the plan
\* it is about to store, or `raised` when analyze_logs or generate_plan raise.
AlertOutcome(log_path, doracle, ctx, foracle, id) ==
    LET diagnosis == analyze_logs(log_path, doracle, ctx)
    IN  IF diagnosis.raised THEN [raised |-> TRUE]
        ELSE LET plan == generate_plan(diagnosis.ret, foracle, id)
             IN  IF plan.raised THEN [raised |-> TRUE]
                 ELSE [raised |-> FALSE, plan |-> plan.ret]

\* Every outcome over the payloads, Oracle behaviours, project trees and ids.
AlertOutcomes ==
    { AlertOutcome(log_path, doracle, ctx, foracle, id) :
        log_path \in LogPaths, doracle \in DiagOracles, ctx \in SourceContexts,
        foracle \in FixOracles, id \in PlanIds }

\* The slot emptied when the handler fails.
AfterFailedAlertCleared(plan, sub) == [plan |-> EmptyDict, sub |-> 0]

\* main.py:123-132: the slot and the submission in it once the except
\* branch of receive_alert has answered; it assigns nothing.
AfterFailedAlert(plan, sub) == [plan |-> plan, sub |-> sub]

\* POST /webhook/alert (main.py:73-132)
receive_alert ==
    /\ LoopFree
    /\ nsub < MaxAlerts
    /\ \E outcome \in AlertOutcomes :
         IF outcome.raised
         THEN /\ response' = Response("alert", "error", PyNone, PyNone)
              /\ CURRENT_PLAN' = AfterFailedAlert(CURRENT_PLAN, slotSub).plan
              /\ slotSub' = AfterFailedAlert(CURRENT_PLAN, slotSub).sub
              /\ UNCHANGED nsub
         ELSE /\ CURRENT_PLAN' = StorePlan(outcome.plan)
              /\ slotSub' = nsub + 1
              /\ nsub' = nsub + 1
              /\ response' = Response("alert", "waiting_for_approval",
                                      CURRENT_PLAN', PyNone)
    /\ UNCHANGED <<running, execCount, approvals, rejections, synth, fsvars, chaosvars>>

\* GET /plan/pending (main.py:135-150)
get_pending_plan ==
    /\ LoopFree
    /\ response' = IF NoPendingPlan(CURRENT_PLAN)
                   THEN Response("peek", "empty", PyNone, PyNone)
                   ELSE Response("peek", "pending", CURRENT_PLAN, PyNone)
    /\ UNCHANGED <<CURRENT_PLAN, slotSub, nsub, running, execCount, approvals,
                   rejections, synth, fsvars, chaosvars>>

\* POST /plan/approve, to the call of execute_plan (main.py:153-171)
approve_plan ==
    /\ LoopFree
    /\ Len(running) < MaxInFlight
    /\ IF NoPendingPlan(CURRENT_PLAN)
       THEN /\ response' = Response("approve", "error", PyNone, PyNone)
            /\ UNCHANGED <<running, execCount>>
       ELSE /\ running' = Append(running, [plan |-> CURRENT_PLAN, sub |-> slotSub])
            /\ execCount' = [execCount EXCEPT ![slotSub] = @ + 1]
            /\ UNCHANGED response
    /\ UNCHANGED <<CURRENT_PLAN, slotSub, nsub, approvals, rejections, synth, fsvars, chaosvars>>

\* The slot left as it is after the execution.
AfterApproveKept(plan, sub) == [plan |-> plan, sub |-> sub]

\* main.py:180-181: the slot and the submission in it once approve_plan has
\* cleared it.
AfterApprove(plan, sub) == [plan |-> EmptyDict, sub |-> 0]

RemoveAt(seq, i) == SubSeq(seq, 1, i - 1) \o SubSeq(seq, i + 1, Len(seq))

\* POST /plan/approve, from the return of execute_plan (main.py:171-188)
approve_plan_return ==
    \E i \in 1..Len(running), env \in ExecEnvs :
        LET execution_result == execute_plan(running[i].plan, env)
            executed_plan == CURRENT_PLAN
        IN  /\ CURRENT_PLAN' = AfterApprove(CURRENT_PLAN, slotSub).plan
            /\ slotSub' = AfterApprove(CURRENT_PLAN, slotSub).sub
            /\ running' = RemoveAt(running, i)
            /\ approvals' = [approvals EXCEPT ![running[i].sub] = @ + 1]
            /\ response' = Response("approve", "approved", executed_plan, execution_result)
            /\ UNCHANGED <<nsub, execCount, rejections, synth, fsvars, chaosvars>>

\* POST /plan/reject (main.py:191-215)
reject_plan ==
    /\ LoopFree
    /\ IF NoPendingPlan(CURRENT_PLAN)
       THEN /\ response' = Response("reject", "no_pending_plan", PyNone, PyNone)
            /\ UNCHANGED <<CURRENT_PLAN, slotSub, rejections>>
       ELSE /\ response' = Response("reject", "rejected", CURRENT_PLAN, PyNone)
            /\ CURRENT_PLAN' = EmptyDict
            /\ slotSub' = 0
            /\ rejections' = [rejections EXCEPT ![slotSub] = @ + 1]
    /\ UNCHANGED <<nsub, running, execCount, approvals, synth, fsvars, chaosvars>>

Next ==
    \/ receive_alert
    \/ get_pending_plan
    \/ approve_plan
    \/ approve_plan_return
    \/ reject_plan

Spec == Init /\ [][Next]_vars

\* ------------------------------------------- the diagnoser and the planner

\* One alert through analyze_logs and generate_plan, a stage at a time, over
\* every payload, Oracle behaviour, project tree and plan id.
SynthInputs ==
    [stage : {"alert"}, log_path : LogPaths, doracle : DiagOracles,
     ctx : SourceContexts, foracle : FixOracles, id : PlanIds]

SynthInit ==
    /\ CURRENT_PLAN = EmptyDict
    /\ slotSub = 0
    /\ nsub = 0
    /\ running = << >>
    /\ execCount = [s \in Subs |-> 0]
    /\ approvals = [s \in Subs |-> 0]
    /\ rejections = [s \in Subs |-> 0]
    /\ response = Response("none", "none", PyNone, PyNone)
    /\ synth \in SynthInputs
    /\ FsInit
    /\ ChaosInit

\* main.py:99-100
extract ==
    /\ synth.stage = "alert"
    /\ LET diagnosis == analyze_logs(synth.log_path, synth.doracle, synth.ctx)
       IN  synth' = IF diagnosis.raised
                    THEN [stage |-> "raised"]
                    ELSE [stage |-> "diagnosed", diagnosis |-> diagnosis.ret,
                          log_path |-> synth.log_path, doracle |-> synth.doracle,
                          dcalled |-> diagnosis.called,
                          foracle |-> synth.foracle, id |-> synth.id]
    /\ UNCHANGED <<CURRENT_PLAN, slotSub, nsub, running, execCount, approvals,
                   rejections, response, fsvars, chaosvars>>

\* main.py:105
synthesize ==
    /\ synth.stage = "diagnosed"
    /\ LET plan == generate_plan(synth.diagnosis, synth.foracle, synth.id)
       IN  synth' = [stage |-> "planned", diagnosis |-> synth.diagnosis,
                     log_path |-> synth.log_path, doracle |-> synth.doracle,
                     dcalled |-> synth.dcalled,
                     foracle |-> synth.foracle, id |-> synth.id,
                     raised |-> plan.raised, called |-> plan.called, plan |-> plan.ret]
    /\ UNCHANGED <<CURRENT_PLAN, slotSub, nsub, running, execCount, approvals,
                   rejections, response, fsvars, chaosvars>>

SynthNext == extract \/ synthesize

SynthSpec == SynthInit /\ [][SynthNext]_vars

\* ------------------------------------------ the executor on the file tree

\* file_path, original_code and fixed_code as the Oracle may give them
\* (planner.py:155-164 copies them into the plan unchecked): a source of the
\* project, no such file, a path through "..", an absolute path, a
\* directory, null; code that is in the file once or twice, not at all,
\* empty, null.
FilePaths ==
    {Str(<<"n">>), Str(<<"q">>), Str(<<".", ".", "/", "s">>), Str(<<"/", "s">>),
     Str(<<".", ".">>), PyNone}

OriginalCodes == {Str(<<"Z">>), Str(<< >>), PyNone}

FixedCodes == {Str(<<"B", " ", "B">>), PyNone}

\* The Oracle's patch of the spec's example: B in m becomes X.
ExamplePatch ==
    [file_path |-> Str(<<"m">>), original_code |-> Str(<<"B">>),
     fixed_code |-> Str(<<"X">>)]

\* The example and the patches that differ from it in one field.
Patches ==
    {ExamplePatch}
    \cup {[ExamplePatch EXCEPT !.file_path = fp] : fp \in FilePaths}
    \cup {[ExamplePatch EXCEPT !.original_code = oc] : oc \in OriginalCodes}
    \cup {[ExamplePatch EXCEPT !.fixed_code = fc] : fc \in FixedCodes}

PatchPlans == {CodePatchPlan(patch, patch.fixed_code, << >>) : patch \in Patches}

RestartPlan == [action |-> "restart_service", reason |-> Str("retry")]

\* A plan that carries a script to run.
ScriptPlan ==
    [action |-> "run_script", reason |-> Str("retry"), script |-> Str("print(1)")]

ExecPlans ==
    PatchPlans
    \cup {ResolveChaosPlan, FallbackPlan(PlanId(1)), RestartPlan, ScriptPlan, EmptyDict}

\* The step of a patch at which the file system raises.
IoFaults == {"copy", "read", "write"}

\* A call of execute_plan: the plan, what the file system does to a patch
\* (every patch on a sound file system, the example also with each fault)
\* and what the network does to the POST of resolve_chaos.
ExecInputs ==
    {[plan |-> plan, io |-> "ok", net |-> "ok"] : plan \in ExecPlans}
    \cup {[plan |-> CodePatchPlan(ExamplePatch, ExamplePatch.fixed_code, << >>),
           io |-> io, net |-> "ok"] : io \in IoFaults}
    \cup {[plan |-> ResolveChaosPlan, io |-> "ok", net |-> "fail"]}

Touch(op, p) == [op |-> op, path |-> p]

Done(result) ==
    [execution EXCEPT !.pc = "done", !.result = result]

\* execute_plan, to the existence test (executor.py:14-33, 77-109)
execute_plan_call ==
    /\ execution.pc = "done"
    /\ nexec < MaxExecs
    /\ nexec' = nexec + 1
    /\ \E input \in ExecInputs :
         LET plan == input.plan
             call == [NoExecution EXCEPT !.call = "execute_plan", !.args = plan,
                                         !.io = input.io, !.before = files]
             file_path == Get(plan, "file_path", PyNone)
             full_path == join(workspace, file_path.val)
         IN  execution' =
               IF Get(plan, "action", "None") # "apply_code_patch"
               THEN [call EXCEPT !.result = execute_plan(plan, [fs |-> "missing", net |-> input.net])]
               ELSE IF file_path.type # "str"
               THEN [call EXCEPT !.result = apply_code_patch(plan, "exception")]
               ELSE IF ~exists(files, full_path)
               THEN [call EXCEPT !.result = apply_code_patch(plan, "missing")]
               ELSE [call EXCEPT !.pc = "backup", !.full_path = full_path]
    /\ UNCHANGED <<files, now>>
    /\ UNCHANGED <<appvars, chaosvars>>

\* The copy left out.
copy2Skipped(fs, src, dst) == fs

\* shutil.copy2(src, dst) (executor.py:37): dst made or overwritten.
copy2(fs, src, dst) == WriteFile(fs, dst, fs[src])

\* executor.py:36-37: shutil.copy2 to the timestamped path. Copying a
\* directory raises.
backup ==
    /\ execution.pc = "backup"
    /\ LET target == Resolve(execution.full_path)
           copy == backup_path(execution.full_path, now)
       IN  IF execution.io = "copy" \/ target \notin DOMAIN files
           THEN /\ execution' = Done(apply_code_patch(execution.args, "exception"))
                /\ UNCHANGED files
           ELSE /\ files' = copy2(files, target, Resolve(copy))
                /\ execution' =
                     [execution EXCEPT !.pc = "verify", !.backup_path = copy,
                        !.touched = @ \o <<Touch("read", target),
                                           Touch("write", Resolve(copy))>>]
    /\ UNCHANGED <<now, nexec>>
    /\ UNCHANGED <<appvars, chaosvars>>

\* The search for original_code left out.
OriginalMissingUnchecked(original_code, current_content) == FALSE

\* `original_code not in current_content` (executor.py:45)
OriginalMissing(original_code, current_content) ==
    ~IsSubstr(original_code, current_content)

\* executor.py:41-51: the file read and searched for original_code.
verify ==
    /\ execution.pc = "verify"
    /\ LET target == Resolve(execution.full_path)
           original_code == Get(execution.args, "original_code", PyNone)
       IN  execution' =
             IF execution.io = "read"
             THEN Done(apply_code_patch(execution.args, "exception"))
             ELSE LET read == [execution EXCEPT !.current_content = read_text(files[target]),
                                 !.touched = Append(@, Touch("read", target))]
                  IN  IF original_code.type # "str"
                      THEN [read EXCEPT !.pc = "done",
                              !.result = apply_code_patch(execution.args, "exception")]
                      ELSE IF OriginalMissing(original_code.val, read_text(files[target]))
                      THEN [read EXCEPT !.pc = "done",
                              !.result = apply_code_patch(execution.args, "mismatch")]
                      ELSE [read EXCEPT !.pc = "write"]
    /\ UNCHANGED <<files, now, nexec>>
    /\ UNCHANGED <<appvars, chaosvars>>

\* executor.py:54-75: the replacement and the write. open(..., 'w') empties
\* the file before anything is written, so a write that raises leaves the
\* file as it was or empty.
write ==
    /\ execution.pc = "write"
    /\ LET target == Resolve(execution.full_path)
           original_code == Get(execution.args, "original_code", PyNone)
           fixed_code == Get(execution.args, "fixed_code", PyNone)
       IN  IF fixed_code.type # "str"
           THEN /\ execution' = Done(apply_code_patch(execution.args, "exception"))
                /\ UNCHANGED files
           ELSE IF execution.io = "write"
           THEN \/ /\ execution' = Done(apply_code_patch(execution.args, "exception"))
                   /\ UNCHANGED files
                \/ /\ execution' =
                        [Done(apply_code_patch(execution.args, "exception"))
                           EXCEPT !.touched = Append(@, Touch("write", target))]
                   /\ files' = WriteFile(files, target, << >>)
           ELSE LET patched_content ==
                      replace(execution.current_content, original_code.val, fixed_code.val)
                IN  /\ files' = WriteFile(files, target, write_text(patched_content))
                    /\ execution' =
                         [execution EXCEPT !.pc = "done",
                            !.touched = Append(@, Touch("write", target)),
                            !.result = [apply_code_patch(execution.args, "patched")
                                          EXCEPT !.backup_path =
                                            Str(execution.backup_path)]]
    /\ UNCHANGED <<now, nexec>>
    /\ UNCHANGED <<appvars, chaosvars>>

\* A second of the clock passes between two calls.
tick ==
    /\ execution.pc = "done"
    /\ now < MaxClock
    /\ now' = now + 1
    /\ UNCHANGED <<files, execution, nexec>>
    /\ UNCHANGED <<appvars, chaosvars>>

\* Inputs of get_source_code_context: the diagnosis's file_name and
\* line_number, which analyze_logs passes on unchecked (diagnoser.py:140-144).
FileNames ==
    {Str(<<"q">>), Str(<<".", ".", "/", "s">>), Str(<<"/", "s">>),
     Str(<<".", ".">>), Str(Unknown), PyNone}

LineNumbers == {Str(<<" ", "-", "2">>), Str(<<"x">>), Str(Unknown), PyInt(1), PyNone}

\* The example, the calls that differ from it in one argument, and the
\* example on a file whose read raises.
ContextInputs ==
    LET example == [file_name |-> Str(<<"m">>), line_number |-> Str(<<"1">>), io |-> "ok"]
    IN  {example, [example EXCEPT !.io = "read"]}
        \cup {[example EXCEPT !.file_name = f] : f \in FileNames}
        \cup {[example EXCEPT !.line_number = n] : n \in LineNumbers}

\* Diagnoser.get_source_code_context (diagnoser.py:54-104): `found` with
\* the text it puts between the header and the footer line, or not found
\* when it returns ''.
get_source_code_context ==
    /\ execution.pc = "done"
    /\ \E input \in ContextInputs :
         LET file_name == input.file_name
             line_number == input.line_number
             call == [NoExecution EXCEPT !.call = "get_source_code_context",
                        !.args = [file_name |-> file_name, line_number |-> line_number],
                        !.io = input.io, !.before = files]
             file_path == join(workspace, file_name.val)
             gives_up ==
                 \/ file_name = Str(Unknown) \/ line_number = Str(Unknown)
                 \/ line_number.type \notin {"str", "int"}
                 \/ (line_number.type = "str" /\ ~IsIntText(line_number.val))
                 \/ file_name.type # "str"
                 \/ ~exists(files, file_path)
                 \/ Resolve(file_path) \notin DOMAIN files
                 \/ input.io = "read"
             line_num == IF line_number.type = "int" THEN line_number.val
                         ELSE int(line_number.val)
             lines == readlines(read_text(files[Resolve(file_path)]))
         IN  execution' =
               IF gives_up
               THEN [call EXCEPT !.result = [found |-> FALSE, context |-> << >>]]
               ELSE [call EXCEPT !.full_path = file_path,
                       !.touched = <<Touch("read", Resolve(file_path))>>,
                       !.current_content = read_text(files[Resolve(file_path)]),
                       !.result = [found |-> TRUE,
                                   context |-> joined(source_context(lines, line_num))]]
    /\ UNCHANGED <<files, now, nexec>>
    /\ UNCHANGED <<appvars, chaosvars>>

ExecNext ==
    \/ execute_plan_call
    \/ backup
    \/ verify
    \/ write
    \/ tick
    \/ get_source_code_context

ExecSpec == Init /\ [][ExecNext]_vars

\* ------------------------------------------------ the source-context window

\* A file of n lines, each line named by its number.
Lines(n) == [i \in 1..n |-> i]

\* Files at the threshold, just over it and well over it; line numbers the
\* diagnosis may report for them: below 1, inside, past the end.
WindowInputs ==
    [total_lines : {SmallFileLines, SmallFileLines + 1, SmallFileLines + MaxLineOffset},
     line_num : (0 - MaxLineOffset)..(SmallFileLines + MaxLineOffset + MaxLineOffset)]

WindowInit ==
    /\ CURRENT_PLAN = EmptyDict
    /\ slotSub = 0
    /\ nsub = 0
    /\ running = << >>
    /\ execCount = [s \in Subs |-> 0]
    /\ approvals = [s \in Subs |-> 0]
    /\ rejections = [s \in Subs |-> 0]
    /\ synth = NoSynth
    /\ response = Response("none", "none", PyNone, PyNone)
    /\ files = ProjectTree
    /\ now = 0
    /\ nexec = 0
    /\ \E input \in WindowInputs :
          execution = [NoExecution EXCEPT !.call = "get_source_code_context",
                                          !.pc = "lines", !.args = input]
    /\ ChaosInit

\* get_source_code_context from the lines it has read to the lines it
\* attaches (diagnoser.py:84-97).
select_lines ==
    /\ execution.pc = "lines"
    /\ execution' =
         [execution EXCEPT !.pc = "done",
            !.result = [found |-> TRUE,
                        context |-> source_context(Lines(execution.args.total_lines),
                                                   execution.args.line_num)]]
    /\ UNCHANGED <<files, now, nexec>>
    /\ UNCHANGED <<appvars, chaosvars>>

WindowNext == select_lines

WindowSpec == WindowInit /\ [][WindowNext]_vars

\* --------------------------------------------------- the monitored service

\* The alert flag marked only once the post has gone through.
MarkSentOnDelivery(delivered) == delivered

\* Chaos-app/main.py:104-105: ALERT_SENT after the guard `if not ALERT_SENT`
\* has passed; it is set before the post is tried, whatever the post does.
MarkSent(delivered) == TRUE

\* GET /buy (Chaos-app/main.py:78-124). The handler has no await, and
\* requests.post blocks, so it runs to its end without another handler in
\* between. While BROKEN_MODE it logs the error, posts at most one alert and
\* answers 500; delivered is whether requests.post returned or raised.
buy_endpoint ==
    /\ IF ~BROKEN_MODE
       THEN /\ chaos_reply' = "payment_success"
            /\ UNCHANGED <<ALERT_SENT, buys, alerts>>
       ELSE /\ buys < MaxBuys
            /\ buys' = buys + 1
            /\ chaos_reply' = "500"
            /\ IF ~ALERT_SENT
               THEN \E delivered \in BOOLEAN :
                       /\ ALERT_SENT' = MarkSent(delivered)
                       /\ alerts' = Append(alerts, [incident |-> incident,
                                                    broken |-> BROKEN_MODE,
                                                    delivered |-> delivered])
               ELSE UNCHANGED <<ALERT_SENT, alerts>>
    /\ UNCHANGED <<BROKEN_MODE, incident>>
    /\ UNCHANGED <<appvars, fsvars>>

\* POST /chaos/trigger (Chaos-app/main.py:127-136)
trigger_chaos ==
    /\ incident < MaxIncidents
    /\ BROKEN_MODE' = TRUE
    /\ ALERT_SENT' = FALSE
    /\ incident' = incident + 1
    /\ buys' = 0
    /\ chaos_reply' = "chaos_started"
    /\ UNCHANGED alerts
    /\ UNCHANGED <<appvars, fsvars>>

\* POST /chaos/resolve (Chaos-app/main.py:139-148), the endpoint the
\* executor's resolve_chaos branch posts to.
chaos_resolve ==
    /\ incident < MaxIncidents
    /\ BROKEN_MODE' = FALSE
    /\ ALERT_SENT' = FALSE
    /\ incident' = incident + 1
    /\ buys' = 0
    /\ chaos_reply' = "recovered"
    /\ UNCHANGED alerts
    /\ UNCHANGED <<appvars, fsvars>>

\* GET /status (Chaos-app/main.py:151-159)
get_status ==
    /\ chaos_reply' = IF BROKEN_MODE THEN "degraded" ELSE "healthy"
    /\ UNCHANGED <<BROKEN_MODE, ALERT_SENT, incident, buys, alerts>>
    /\ UNCHANGED <<appvars, fsvars>>

ChaosNext ==
    \/ buy_endpoint
    \/ trigger_chaos
    \/ chaos_resolve
    \/ get_status

ChaosSpec == Init /\ [][ChaosNext]_vars

\* ----------------------------------------------------------------- claims

SubsStored == 1..MaxAlerts

\* C1: every call of execute_plan is made by approve_plan on the plan that is
\* in the pending slot at that moment; a step that returns the response of
\* receive_alert, get_pending_plan or reject_plan calls no executor.
C1_ExecutionOnlyOnApprove ==
    [][ /\ (execCount' # execCount \/ Len(running') > Len(running)) =>
              /\ DictTruthy(CURRENT_PLAN)
              /\ slotSub # 0
              /\ running' = Append(running, [plan |-> CURRENT_PLAN, sub |-> slotSub])
              /\ execCount' = [execCount EXCEPT ![slotSub] = @ + 1]
        /\ (response' # response /\ response'.op \in {"alert", "peek", "reject"}) =>
              /\ execCount' = execCount
              /\ running' = running ]_vars

\* An approve_plan call is inside execute_plan with the plan of the slot.
C1_Witness ==
    /\ running # << >>
    /\ running[1].plan = CURRENT_PLAN
    /\ DictTruthy(CURRENT_PLAN)
    /\ execCount[slotSub] = 1

\* C2: while a plan is pending, an alert stores no plan: the slot keeps the
\* plan of the same submission and the handler answers with an error.
C2_SubmitWhilePendingRejected ==
    [][ DictTruthy(CURRENT_PLAN) =>
          /\ nsub' = nsub
          /\ (response' # response /\ response'.op = "alert") =>
                /\ response'.status = "error"
                /\ CURRENT_PLAN' = CURRENT_PLAN
                /\ slotSub' = slotSub ]_vars

\* C3: for one stored plan, at most one decision (an "approved" response of
\* approve_plan, a "rejected" response of reject_plan) is ever returned.
C3_AtMostOneDecision ==
    \A s \in SubsStored : approvals[s] + rejections[s] <= 1

\* The latest plan was approved and a reject that came after found nothing.
C3_Witness ==
    /\ nsub > 0
    /\ approvals[nsub] = 1
    /\ response.op = "reject"
    /\ response.status = "no_pending_plan"

\* C4: while execute_plan runs a plan, the slot no longer holds that plan.
C4_SlotClearedBeforeExecution ==
    \A i \in 1..Len(running) :
        /\ slotSub # running[i].sub
        /\ CURRENT_PLAN # running[i].plan

C6_ApprovedPlanStatus ==
    (response.op = "approve" /\ response.status = "approved") =>
        /\ ~DictTruthy(CURRENT_PLAN)
        /\ Get(response.plan, "status", "none") = "approved"

\* C7: approve_plan or reject_plan on an empty slot answers with an error
\* status, calls no executor, records no decision and leaves the slot empty.
C7_EmptyStoreRefuses ==
    [][ (/\ ~DictTruthy(CURRENT_PLAN)
         /\ running = << >>
         /\ response' # response
         /\ response'.op \in {"approve", "reject"}) =>
              /\ response'.status \in {"error", "no_pending_plan"}
              /\ response'.plan = PyNone
              /\ response'.execution = PyNone
              /\ execCount' = execCount
              /\ running' = running
              /\ approvals' = approvals
              /\ rejections' = rejections
              /\ CURRENT_PLAN' = EmptyDict ]_vars

\* An approve_plan on a store that never held a plan was refused.
C7_Witness ==
    /\ nsub = 0
    /\ response.op = "approve"
    /\ response.status = "error"
    /\ CURRENT_PLAN = EmptyDict
    /\ \A s \in Subs : execCount[s] = 0

\* C8: reject_plan on a pending plan clears the slot and returns the plan
\* with status "rejected"; a rejected plan is never given to execute_plan.
C8_RejectedPlanStatus ==
    /\ (response.op = "reject" /\ response.status = "rejected") =>
          /\ ~DictTruthy(CURRENT_PLAN)
          /\ Get(response.plan, "status", "none") = "rejected"
    /\ \A s \in SubsStored : rejections[s] > 0 => execCount[s] = 0

\* The code the Oracle's JSON object gives for fixed_code (planner.py:137).
FixedCodeOf(oracle) == Get(oracle.data, "fixed_code", EmptyCode)

\* C9: for every generated code that fails to parse, analyze_safety reports
\* (True, findings) with a finding, and the plan generate_plan returns is
\* escalate, with the findings in its reason and no original_code or
\* fixed_code.
C9_UnparsableCodeBlocked ==
    (/\ synth.stage = "planned"
     /\ synth.called
     /\ synth.foracle.kind = "dict"
     /\ FixedCodeOf(synth.foracle).parse # "ok") =>
        LET verdict == analyze_safety(FixedCodeOf(synth.foracle))
        IN  /\ ~verdict.raised
            /\ verdict.catastrophic
            /\ verdict.warnings # << >>
            /\ ~synth.raised
            /\ Get(synth.plan, "action", "none") = "escalate"
            /\ Get(synth.plan, "reason", PyNone) = UnsafeReason(verdict.warnings)
            /\ "fixed_code" \notin DOMAIN synth.plan
            /\ "original_code" \notin DOMAIN synth.plan

\* The Oracle call of generate_fix failed: llm.invoke raised, the parser
\* raised, the JSON was no object, or analyze_safety raised.
OracleFailed(oracle) ==
    \/ oracle.kind \in {"raise", "malformed", "nondict"}
    \/ oracle.kind = "dict" /\ analyze_safety(FixedCodeOf(oracle)).raised

C11_ChaosLogShortCircuits ==
    (/\ synth.stage = "planned"
     /\ synth.log_path.type = "str"
     /\ IsSubstr(CHAOS_MODE, synth.log_path.val)) =>
        /\ ~synth.raised
        /\ ~synth.called
        /\ Get(synth.plan, "action", "none") = "resolve_chaos"

\* A finished call of execute_plan on an apply_code_patch plan whose target
\* file exists.
PatchDone ==
    /\ execution.call = "execute_plan"
    /\ execution.pc = "done"
    /\ Get(execution.args, "action", "None") = "apply_code_patch"
    /\ Get(execution.args, "file_path", PyNone).type = "str"
    /\ Resolve(join(workspace, execution.args.file_path.val)) \in DOMAIN execution.before

Target == Resolve(join(workspace, execution.args.file_path.val))

\* original_code is not a substring of the content the target had when the
\* call began.
Mismatch ==
    \/ execution.args.original_code.type # "str"
    \/ ~IsSubstr(execution.args.original_code.val, read_text(execution.before[Target]))

MismatchDetails ==
    Str("Original code section not found in file. Patch cannot be applied.")

WritesOf(p) ==
    {i \in 1..Len(execution.touched) :
        execution.touched[i] = Touch("write", p)}

\* C13: at every moment of an apply_code_patch execution at which the target
\* differs from its content before the call, the call has already written
\* its backup and the backup holds that earlier content; when the call ends
\* with status success it has written one file besides the target, the
\* backup, made before the target was written, equal to the pre-patch
\* content, and the result reports its path.
C13_BackupBeforePatch ==
    (/\ execution.call = "execute_plan"
     /\ execution.full_path # << >>
     /\ Resolve(execution.full_path) \in DOMAIN execution.before) =>
        LET target == Resolve(execution.full_path)
            copy == Resolve(execution.backup_path)
        IN  /\ (files[target] # execution.before[target] \/ WritesOf(target) # {}) =>
                  /\ execution.backup_path # << >>
                  /\ copy \in DOMAIN files
                  /\ files[copy] = execution.before[target]
                  /\ \A j \in WritesOf(target) : \E i \in WritesOf(copy) : i < j
            /\ (execution.pc = "done" /\ execution.result.status = "success") =>
                  /\ Cardinality(WritesOf(copy)) = 1
                  /\ \A i \in 1..Len(execution.touched) :
                         execution.touched[i].op = "write" =>
                             execution.touched[i].path \in {copy, target}
                  /\ DOMAIN files \ DOMAIN execution.before \subseteq {copy}
                  /\ \A f \in DOMAIN execution.before \ {copy, target} :
                         files[f] = execution.before[f]
                  /\ copy # target
                  /\ files[copy] = execution.before[target]
                  /\ execution.result.backup_path = Str(execution.backup_path)

C13_Witness ==
    /\ PatchDone
    /\ execution.result.status = "success"
    /\ files[Target] # execution.before[Target]
    /\ files[Resolve(execution.backup_path)] = execution.before[Target]

\* `old` occurs in s at index i.
OccursAt(s, old, i) ==
    /\ i \in 1..(Len(s) - Len(old) + 1)
    /\ SubSeq(s, i, i + Len(old) - 1) = old

\* C14: after a successful apply_code_patch the target holds its content
\* from before the call with the leftmost occurrence of original_code
\* replaced by fixed_code and everything before and after it, later
\* occurrences included, as it was; "A B C" with B replaced by X is "A X C".
C14_FirstOccurrenceReplaced ==
    (PatchDone /\ execution.result.status = "success") =>
        LET content == execution.before[Target]
            original_code == execution.args.original_code.val
            fixed_code == execution.args.fixed_code.val
        IN  /\ \E i \in 1..(Len(content) + 1) :
                  /\ OccursAt(content, original_code, i)
                  /\ \A j \in 1..(i - 1) : ~OccursAt(content, original_code, j)
                  /\ files[Target] =
                        SubSeq(content, 1, i - 1) \o fixed_code
                        \o SubSeq(content, i + Len(original_code), Len(content))
            /\ (/\ content = <<"A", " ", "B", " ", "C">>
                /\ original_code = <<"B">>
                /\ fixed_code = <<"X">>) => files[Target] = <<"A", " ", "X", " ", "C">>

\* The actions execute_plan has a branch for (executor.py:16, 77, 99).
KnownActions == {"apply_code_patch", "resolve_chaos", "escalate"}

\* C15: every finished call of execute_plan reports status success, error or
\* escalated, and for a plan whose action is none of the known ones it
\* reports status error with the detail that there is no execution path.
C15_UnknownActionIsError ==
    (execution.call = "execute_plan" /\ execution.pc = "done") =>
        /\ execution.result.status \in {"success", "error", "escalated"}
        /\ Get(execution.args, "action", "None") \notin KnownActions =>
              /\ execution.result.status = "error"
              /\ execution.result.details = Str("No execution path for this action")

\* C16: whatever file_path a plan or file_name a diagnosis carries, every
\* file the executor copies, reads or writes and every file the extractor
\* reads lies under the project root, and no file outside the root is made
\* or changed.
C16_RootNeverEscaped ==
    /\ \A i \in 1..Len(execution.touched) : InsideRoot(execution.touched[i].path)
    /\ \A f \in DOMAIN files :
          ~InsideRoot(f) => f \in DOMAIN ProjectTree /\ files[f] = ProjectTree[f]

\* C17: every plan receive_alert stores carries an id, and a plan stored
\* while an earlier one is still in the slot carries an id different from
\* that earlier plan's.
C17_PlanIdsUnique ==
    [][ nsub' = nsub + 1 =>
          /\ "id" \in DOMAIN CURRENT_PLAN'
          /\ DictTruthy(CURRENT_PLAN) => CURRENT_PLAN'.id # CURRENT_PLAN.id ]_vars

\* C18: the diagnosis analyze_logs returns, and generate_plan works on, has a
\* confidence that is a number from 0 to 1, whatever the log text and the
\* Oracle's answer.
C18_ConfidenceInUnitRange ==
    synth.stage \in {"diagnosed", "planned"} =>
        /\ "confidence" \in DOMAIN synth.diagnosis
        /\ synth.diagnosis.confidence.type = "float"
        /\ synth.diagnosis.confidence.val \in 0..100

\* C19: for log content that is empty or all whitespace analyze_logs
\* returns root cause "No log content provided" with confidence 0.0 and
\* does not call the Oracle.
C19_EmptyLogShortCircuits ==
    (/\ synth.stage \in {"diagnosed", "planned"}
     /\ synth.log_path.type = "str"
     /\ \A i \in 1..Len(synth.log_path.val) : synth.log_path.val[i] \in {" ", "\n", "\t"}) =>
        /\ ~synth.dcalled
        /\ synth.diagnosis =
              [root_cause |-> Str(<<"N", "o", " ", "l", "o", "g", " ", "c", "o", "n",
                                    "t", "e", "n", "t", " ", "p", "r", "o", "v", "i",
                                    "d", "e", "d">>),
               confidence |-> Float(0)]

C19_Witness ==
    /\ synth.stage = "diagnosed"
    /\ synth.log_path = Str(<<" ", "\n">>)
    /\ synth.doracle.kind = "dict"
    /\ ~synth.dcalled

\* The modules the gate names (planner.py:68, 70).
Denylist == {"subprocess", "os", "shutil"}

\* The package a dotted module name lies in.
TopPackage(module) == IF module = "os.path" THEN "os" ELSE module

\* The imported names of a code's import statements that refer to a
\* denylisted module or to a submodule of one, in the order of the code.
RECURSIVE DenylistedNames(_)
DenylistedNames(names) ==
    IF names = << >> THEN << >>
    ELSE (IF TopPackage(Head(names)) \in Denylist THEN <<Head(names)>> ELSE << >>)
         \o DenylistedNames(Tail(names))

RECURSIVE DenylistedImports(_)
DenylistedImports(stmts) ==
    IF stmts = << >> THEN << >>
    ELSE DenylistedNames(Head(stmts).names) \o DenylistedImports(Tail(stmts))

\* C20: for generated code that parses the gate does not block, so the plan
\* is the code patch, and the plan's safety_warnings hold one finding for
\* every import of subprocess, os, shutil or a submodule of them (import
\* os.path, from os.path import x), in the order of the imports.
C20_ImportPolicy ==
    (/\ synth.stage = "planned"
     /\ synth.called
     /\ synth.foracle.kind = "dict"
     /\ FixedCodeOf(synth.foracle).parse = "ok") =>
        LET denylisted == DenylistedImports(FixedCodeOf(synth.foracle).stmts)
        IN  /\ ~synth.raised
            /\ Get(synth.plan, "action", "none") = "apply_code_patch"
            /\ Len(synth.plan.safety_warnings) = Len(denylisted)
            /\ \A i \in 1..Len(denylisted) :
                   synth.plan.safety_warnings[i].module = denylisted[i]

\* C21: a finished call of execute_plan on a plan whose action is run_script
\* reports status success, with the script's output as details, or status
\* error, and no other status.
C21_RunScriptRuns ==
    (/\ execution.call = "execute_plan"
     /\ execution.pc = "done"
     /\ Get(execution.args, "action", "None") = "run_script") =>
        execution.result.status \in {"success", "error"}

\* C22: whenever get_pending_plan answers "pending", the plan it shows has
\* an id, status pending and one of the known actions, and when the action
\* is apply_code_patch its file_path, original_code and fixed_code are not
\* null.
C22_PendingPlanWellFormed ==
    (response.op = "peek" /\ response.status = "pending") =>
        /\ "id" \in DOMAIN response.plan
        /\ Get(response.plan, "status", "none") = "pending"
        /\ Get(response.plan, "action", "None") \in KnownActions
        /\ Get(response.plan, "action", "None") = "apply_code_patch" =>
              /\ Get(response.plan, "file_path", PyNone) # PyNone
              /\ Get(response.plan, "original_code", PyNone) # PyNone
              /\ Get(response.plan, "fixed_code", PyNone) # PyNone

\* C23: for a file of more than 500 lines and any reported line number the
\* attached lines are the lines of the file within 20 of that number, in
\* order, so at most 41; a file of at most 500 lines is attached whole.
C23_ContextWindow ==
    (execution.call = "get_source_code_context" /\ execution.pc = "done"
     /\ "total_lines" \in DOMAIN execution.args) =>
        LET total_lines == execution.args.total_lines
            line_num == execution.args.line_num
            context == execution.result.context
            near == {i \in 1..total_lines :
                        i >= line_num - LinesAfter /\ i <= line_num + LinesAfter}
        IN  IF total_lines <= SmallFileLines THEN context = Lines(total_lines)
            ELSE /\ Len(context) <= LinesAfter + 1 + LinesAfter
                 /\ {context[i] : i \in 1..Len(context)} = near
                 /\ \A i \in 1..(Len(context) - 1) : context[i] < context[i + 1]

\* C24: when approve_plan returns "approved", the plan it gave to
\* execute_plan, the plan it takes out of the slot and the plan in its
\* response are the plan of one submission, the one whose approval is
\* counted; no alert stores a plan while execute_plan runs.
C24_ApproveActsOnOnePlan ==
    [][ /\ approvals' # approvals =>
              \E i \in 1..Len(running) :
                  /\ running' = RemoveAt(running, i)
                  /\ running[i].sub = slotSub
                  /\ running[i].plan = CURRENT_PLAN
                  /\ response'.op = "approve"
                  /\ response'.plan = running[i].plan
                  /\ CURRENT_PLAN' = EmptyDict
                  /\ approvals' = [approvals EXCEPT ![slotSub] = @ + 1]
        /\ running # << >> => nsub' = nsub ]_vars

\* An approval returned the plan of the second submission, executed once.
C24_Witness ==
    /\ nsub = 2
    /\ response.op = "approve"
    /\ response.status = "approved"
    /\ approvals[2] = 1
    /\ execCount[2] = 1
    /\ running = << >>
    /\ slotSub = 0

\* The backup files: every file that was not in the tree at the start.
Backups == DOMAIN files \ DOMAIN ProjectTree

\* C25: no step changes or removes a backup file that exists, so a file
\* whose content differs from its content at the start has a backup that
\* holds that first content.
C25_BackupsNeverLost ==
    [][ /\ \A b \in Backups : b \in DOMAIN files' /\ files'[b] = files[b]
        /\ \A f \in DOMAIN ProjectTree :
               files'[f] # ProjectTree[f] =>
                   \E b \in DOMAIN files' \ DOMAIN ProjectTree :
                       files'[b] = ProjectTree[f] ]_vars

\* The plans receive_alert can store: the plan of an alert whose diagnosis
\* and synthesis did not raise, with status pending.
StorablePlans == {StorePlan(outcome.plan) : outcome \in {o \in AlertOutcomes : ~o.raised}}

\* C26: an alert whose diagnosis or synthesis raises is answered with status
\* error and leaves the slot as it was, the same plan of the same submission
\* or empty; a plan is stored only by an alert that did not raise, whole.
C26_FailedAlertLeavesStore ==
    [][ /\ (response' # response /\ response'.op = "alert" /\ response'.status = "error") =>
              /\ CURRENT_PLAN' = CURRENT_PLAN
              /\ slotSub' = slotSub
              /\ nsub' = nsub
        /\ (response'.op = "alert" /\ CURRENT_PLAN' # CURRENT_PLAN) =>
              /\ response'.status = "waiting_for_approval"
              /\ nsub' = nsub + 1
              /\ CURRENT_PLAN' \in StorablePlans ]_vars

\* A failed alert was answered while the plan of the first submission stays
\* pending.
C26_Witness ==
    /\ response.op = "alert"
    /\ response.status = "error"
    /\ nsub = 1
    /\ slotSub = 1
    /\ DictTruthy(CURRENT_PLAN)

\* C27: the step on which approve_plan completes empties the slot whatever
\* status execute_plan returned and hands that result to the caller; from an
\* empty slot nothing is executed and nothing enters the slot until an alert
\* stores a new plan.
C27_SlotClearedWhateverResult ==
    [][ /\ approvals' # approvals =>
              /\ ~DictTruthy(CURRENT_PLAN')
              /\ slotSub' = 0
              /\ response'.op = "approve"
              /\ response'.status = "approved"
              /\ \E env \in ExecEnvs :
                     response'.execution = execute_plan(response'.plan, env)
        /\ (~DictTruthy(CURRENT_PLAN) /\ nsub' = nsub) =>
              /\ ~DictTruthy(CURRENT_PLAN')
              /\ execCount' = execCount
              /\ approvals' = approvals ]_vars

\* The plan of the first submission was approved, its execution failed, the
\* slot is empty and no later alert has come.
C27_Witness ==
    /\ response.op = "approve"
    /\ response.status = "approved"
    /\ response.execution.status = "error"
    /\ nsub = 1
    /\ approvals[1] = 1
    /\ ~DictTruthy(CURRENT_PLAN)

\* The alert posts made between the k-th call of trigger or resolve and the
\* next one.
AlertsOf(k) == {i \in 1..Len(alerts) : alerts[i].incident = k}

\* C28: between two calls of trigger or resolve the chaos service posts at
\* most one alert, whether the post went through or not; every post is made
\* while broken mode is on; and each such call re-arms the alert, so that the
\* first failing /buy after it posts one.
C28_OneAlertPerIncident ==
    /\ \A k \in 0..incident : Cardinality(AlertsOf(k)) <= 1
    /\ \A i \in 1..Len(alerts) : alerts[i].broken
    /\ ALERT_SENT <=> AlertsOf(incident) # {}
    /\ buys > 0 <=> AlertsOf(incident) # {}
    /\ ~BROKEN_MODE => AlertsOf(incident) = {}

\* Two failing /buy requests in an incident whose alert post failed, after an
\* earlier incident that had its own alert.
C28_Witness ==
    /\ BROKEN_MODE
    /\ buys = 2
    /\ Len(alerts) = 2
    /\ AlertsOf(incident) = {2}
    /\ ~alerts[2].delivered
    /\ chaos_reply = "500"
====
